---- MODULE Spec2Model ----
(***************************************************************************)
(* The video record store of splucena/video_tracker: a CSV file holding    *)
(* one row per video, with the four store operations get_videos,           *)
(* add_video, update_video and delete_video as implemented in              *)
(* fastapi-app/csv_manager.py, i_django/.../csv_manager.py and             *)
(* i_flask/data_manager.py.                                                *)
(*                                                                         *)
(* The boundary handlers (i_fastapi/app.py, i_django/.../views.py,         *)
(* flask-app/app.py) call the store and turn its result into an HTTP       *)
(* status.  Requests are served one at a time: op holds the response of    *)
(* the request served last until the client has received it, and before    *)
(* holds the file as that request found it.                                *)
(*                                                                         *)
(* Text is a sequence of one-character strings, so that str(int) and       *)
(* int(str) are computed and not assumed.  The backing file is modelled at *)
(* the level the csv module presents it: a header row of field names and a *)
(* sequence of raw rows, each a sequence of text cells.                    *)
(***************************************************************************)
EXTENDS Integers, Sequences, FiniteSets, TLC

VARIABLES impl, file, before, op, procs

vars == <<impl, file, before, op, procs>>

(***************************************************************************)
(* Bounds                                                                  *)
(***************************************************************************)
MaxId == 2

Ids == 1..MaxId

(***************************************************************************)
(* Text                                                                    *)
(***************************************************************************)
DigitChars == <<"0", "1", "2", "3", "4", "5", "6", "7", "8", "9">>

IsDigit(c) == \E i \in 1..10 : DigitChars[i] = c

DigitVal(c) == (CHOOSE i \in 1..10 : DigitChars[i] = c) - 1

\* The characters in use, in code-point order (str comparison in Python).
Alphabet == <<" ", "+", "-", "0", "1", "2", "3", "4", "5", "6", "7", "8", "9",
              "A", "B", "_", "a", "b", "h", "x">>

Ord(c) == CHOOSE i \in 1..Len(Alphabet) : Alphabet[i] = c

\* str.lower() on one character.
LowerChar(c) == CASE c = "A" -> "a"
                  [] c = "B" -> "b"
                  [] OTHER -> c

Lower(t) == [i \in 1..Len(t) |-> LowerChar(t[i])]

\* s < t for Python strings: lexicographic by code point.
RECURSIVE TextLess(_, _)
TextLess(s, t) ==
    IF t = <<>> THEN FALSE
    ELSE IF s = <<>> THEN TRUE
    ELSE IF s[1] # t[1] THEN Ord(s[1]) < Ord(t[1])
    ELSE TextLess(Tail(s), Tail(t))

\* Faulty str(): only the last digit is kept.
Str_lastdigit(n) == <<DigitChars[(n % 10) + 1]>>

\* str(n) for an int n.
RECURSIVE NatStr(_)
NatStr(n) ==
    IF n < 10 THEN <<DigitChars[n + 1]>>
    ELSE NatStr(n \div 10) \o <<DigitChars[(n % 10) + 1]>>

Str(n) == IF n < 0 THEN <<"-">> \o NatStr(0 - n) ELSE NatStr(n)

\* str.strip() of blanks, as int() does before parsing.
RECURSIVE StripLeft(_)
StripLeft(t) ==
    IF t # <<>> /\ t[1] = " " THEN StripLeft(Tail(t)) ELSE t

RECURSIVE StripRight(_)
StripRight(t) ==
    IF t # <<>> /\ t[Len(t)] = " " THEN StripRight(SubSeq(t, 1, Len(t) - 1))
    ELSE t

\* The digits of an int literal: digits, with single underscores between.
RECURSIVE DigitsOk(_, _)
DigitsOk(t, prevDigit) ==
    IF t = <<>> THEN prevDigit
    ELSE IF IsDigit(t[1]) THEN DigitsOk(Tail(t), TRUE)
    ELSE IF t[1] = "_" THEN prevDigit /\ Len(t) > 1 /\ IsDigit(t[2])
                            /\ DigitsOk(Tail(t), FALSE)
    ELSE FALSE

RECURSIVE DigitsVal(_, _)
DigitsVal(t, acc) ==
    IF t = <<>> THEN acc
    ELSE IF t[1] = "_" THEN DigitsVal(Tail(t), acc)
    ELSE DigitsVal(Tail(t), 10 * acc + DigitVal(t[1]))

\* int(t) for a str t: [ok |-> FALSE] stands for ValueError.
IntParse(t) ==
    LET s == StripRight(StripLeft(t))
        signed == s # <<>> /\ s[1] \in {"+", "-"}
        body == IF signed THEN Tail(s) ELSE s
    IN  IF body # <<>> /\ DigitsOk(body, FALSE)
        THEN [ok |-> TRUE,
              val |-> IF signed /\ s[1] = "-" THEN 0 - DigitsVal(body, 0)
                      ELSE DigitsVal(body, 0)]
        ELSE [ok |-> FALSE, val |-> 0]


(***************************************************************************)
(* Record schema and validator                                             *)
(***************************************************************************)
RECURSIVE NumVal(_, _)
NumVal(t, acc) ==
    IF t = <<>> THEN acc ELSE NumVal(Tail(t), 10 * acc + DigitVal(t[1]))

\* Faulty leap rule: every fourth year.
IsLeap_julian(y) == y % 4 = 0

IsLeap(y) == (y % 4 = 0 /\ y % 100 # 0) \/ y % 400 = 0

DaysInMonth(y, m) ==
    IF m = 2 THEN (IF IsLeap(y) THEN 29 ELSE 28)
    ELSE IF m \in {4, 6, 9, 11} THEN 30 ELSE 31

\* re.match(r"^\d{4}-\d{2}-\d{2}$", v): "$" also matches before one
\* trailing newline.
DatePattern(v) ==
    /\ Len(v) \in {10, 11}
    /\ Len(v) = 11 => v[11] = "\n"
    /\ \A i \in {1, 2, 3, 4, 6, 7, 9, 10} : IsDigit(v[i])
    /\ v[5] = "-" /\ v[8] = "-"

\* datetime.strptime(v, "%Y-%m-%d") does not raise ValueError.
StrptimeOk(v) ==
    /\ Len(v) = 10
    /\ LET y == NumVal(SubSeq(v, 1, 4), 0)
           m == NumVal(SubSeq(v, 6, 7), 0)
           d == NumVal(SubSeq(v, 9, 10), 0)
       IN  /\ y >= 1
           /\ m >= 1 /\ m <= 12
           /\ d >= 1 /\ d <= DaysInMonth(y, m)

validate_date_format(v) == DatePattern(v) /\ StrptimeOk(v)

(***************************************************************************)
(* The backing file as the csv module presents it                          *)
(***************************************************************************)
Impls == {"fastapi", "django", "flask"}

fieldnames == <<"id", "name", "href", "post_date", "views_count">>

HasKey(header, key) == \E i \in 1..Len(header) : header[i] = key

KeyPos(header, key) == CHOOSE i \in 1..Len(header) : header[i] = key

\* The DictReader row has a value other than None under key.
RowHas(header, row, key) ==
    HasKey(header, key) /\ KeyPos(header, key) <= Len(row)

\* row[key] when it is a str; None, which no str equals, is given as empty.
RowCell(header, row, key) ==
    IF RowHas(header, row, key) THEN row[KeyPos(header, key)] ELSE <<>>

\* row.get("id") == idtext
IdIs(header, row, idtext) ==
    RowHas(header, row, "id") /\ RowCell(header, row, "id") = idtext

\* A DictReader row as DictWriter sees it: whether it holds a key that is
\* not a field name (the None key of surplus cells), and its cell under each
\* field name, None written as the empty string.
ReaderDict(header, row) ==
    [extras |-> Len(row) > Len(header),
     cells  |-> [i \in 1..Len(header) |->
                    IF i <= Len(row) THEN row[i] ELSE <<>>]]

\* The five-key dict of a video as DictWriter(fieldnames=header) sees it.
VideoDict(header, cellOf) ==
    [extras |-> \E i \in 1..Len(fieldnames) : ~HasKey(header, fieldnames[i]),
     cells  |-> [i \in 1..Len(header) |->
                    IF HasKey(fieldnames, header[i])
                    THEN cellOf[KeyPos(fieldnames, header[i])] ELSE <<>>]]

\* writer.writerows(dicts): the rows written before the first dict with a key
\* outside the field names, at which DictWriter raises ValueError.
RECURSIVE Written(_)
Written(dicts) ==
    IF dicts = <<>> \/ dicts[1].extras THEN <<>>
    ELSE <<dicts[1].cells>> \o Written(Tail(dicts))

WriteRaises(dicts) == \E i \in 1..Len(dicts) : dicts[i].extras

\* Faulty _file_exists(): claims the file is there whatever the disk says.
_file_exists_always(f) == TRUE

_file_exists(f) == f.exists /\ f.header # <<>>

\* Faulty _get_csv_path(): creates the file along with the directory.
_get_csv_path_touch(im, f) == [f EXCEPT !.dir = TRUE, !.exists = TRUE]

\* os.makedirs(data_dir, exist_ok=True) in fastapi and django; the flask
\* store only joins the path.
_get_csv_path(im, f) ==
    IF im = "flask" THEN f ELSE [f EXCEPT !.dir = TRUE]

(***************************************************************************)
(* get_videos                                                              *)
(***************************************************************************)
\* The body of the per-row try block: "ok" with the decoded video, or the
\* exception it raises: ValueError from int() of text that is no integer
\* (or, in flask, from the Video model's validator), KeyError from a column
\* the header lacks, TypeError from int(None) for a cell the row lacks.
DecodeRow(im, header, row) ==
    LET views == IntParse(RowCell(header, row, "views_count"))
        ident == IntParse(RowCell(header, row, "id"))
        video == [id |-> ident.val,
                  name |-> RowCell(header, row, "name"),
                  href |-> RowCell(header, row, "href"),
                  post_date |-> RowCell(header, row, "post_date"),
                  views_count |-> views.val]
        res(k) == [kind |-> k, video |-> video]
    IN  IF HasKey(header, "views_count") /\ ~RowHas(header, row, "views_count")
        THEN res("TypeError")
        ELSE IF HasKey(header, "views_count") /\ ~views.ok
        THEN res("ValueError")
        ELSE IF ~HasKey(header, "id") THEN res("KeyError")
        ELSE IF ~RowHas(header, row, "id") THEN res("TypeError")
        ELSE IF ~ident.ok THEN res("ValueError")
        ELSE IF \E k \in {"name", "href", "post_date", "views_count"} :
                    ~HasKey(header, k)
        THEN res("KeyError")
        ELSE IF im = "flask" /\ ~validate_date_format(video.post_date)
        THEN res("ValueError")
        ELSE res("ok")

\* Faulty except clause: only KeyError is caught per row.
RowSkipped_keyerror(kind) == kind = "KeyError"

\* except (ValueError, KeyError): the row is skipped.
RowSkipped(kind) == kind \in {"ValueError", "KeyError"}

Decoded(im, f) == [i \in 1..Len(f.rows) |-> DecodeRow(im, f.header, f.rows[i])]

RECURSIVE OkVideos(_)
OkVideos(ds) ==
    IF ds = <<>> THEN <<>>
    ELSE (IF ds[1].kind = "ok" THEN <<ds[1].video>> ELSE <<>>)
         \o OkVideos(Tail(ds))

\* order.lower()
OrderLower(order) ==
    CASE order = "DESC" -> "desc"
      [] order = "ASC" -> "asc"
      [] OTHER -> order

\* Faulty sort_key: the raw text of the field, no int() and no lower().
KeyLess_text(sort_by, a, b) ==
    IF sort_by = "views_count"
    THEN TextLess(Str(a.views_count), Str(b.views_count))
    ELSE IF sort_by = "post_date" THEN TextLess(a.post_date, b.post_date)
    ELSE TextLess(a.name, b.name)

\* sort_key(a) < sort_key(b)
KeyLess(sort_by, a, b) ==
    IF sort_by = "views_count" THEN a.views_count < b.views_count
    ELSE IF sort_by = "post_date" THEN TextLess(a.post_date, b.post_date)
    ELSE TextLess(Lower(a.name), Lower(b.name))

\* Insert v behind every element that is not greater: a stable insertion.
RECURSIVE InsertSorted(_, _, _)
InsertSorted(sort_by, sorted, v) ==
    IF sorted = <<>> THEN <<v>>
    ELSE IF KeyLess(sort_by, v, sorted[1]) THEN <<v>> \o sorted
    ELSE <<sorted[1]>> \o InsertSorted(sort_by, Tail(sorted), v)

RECURSIVE StableSort(_, _, _)
StableSort(sort_by, videos, acc) ==
    IF videos = <<>> THEN acc
    ELSE StableSort(sort_by, Tail(videos),
                    InsertSorted(sort_by, acc, videos[1]))

Reverse(s) == [i \in 1..Len(s) |-> s[Len(s) + 1 - i]]

\* Faulty sort: the reverse argument is not passed on.
ListSort_ascending(sort_by, videos, reverse) ==
    StableSort(sort_by, videos, <<>>)

\* Faulty sort: descending order by reversing the ascending result.
ListSort_flipped(sort_by, videos, reverse) ==
    IF reverse
    THEN Reverse(StableSort(sort_by, videos, <<>>))
    ELSE StableSort(sort_by, videos, <<>>)

\* list.sort(key=sort_key, reverse=r): with reverse the list is reversed,
\* sorted stably and reversed again.
ListSort(sort_by, videos, reverse) ==
    IF reverse
    THEN Reverse(StableSort(sort_by, Reverse(videos), <<>>))
    ELSE StableSort(sort_by, videos, <<>>)

\* Faulty test: every sort_by value sorts.
Sortable_any(sort_by) == TRUE

\* if sort_by in ["name", "post_date", "views_count"]
Sortable(sort_by) == sort_by \in {"name", "post_date", "views_count"}

get_videos(im, f0, sort_by, order) ==
    LET f == _get_csv_path(im, f0)
        ds == Decoded(im, f)
        videos == OkVideos(ds)
    IN  IF ~_file_exists(f)
        THEN [file |-> f, err |-> FALSE, videos |-> <<>>]
        ELSE IF ~f.exists
        THEN \* open(csv_path, "r") raises FileNotFoundError
             [file |-> f, err |-> TRUE, videos |-> <<>>]
        ELSE IF \E i \in 1..Len(ds) :
                    ds[i].kind # "ok" /\ ~RowSkipped(ds[i].kind)
        THEN \* the outer except returns the empty list
             [file |-> f, err |-> TRUE, videos |-> <<>>]
        ELSE IF Sortable(sort_by)
        THEN [file |-> f, err |-> FALSE,
              videos |-> ListSort(sort_by, videos,
                                  OrderLower(order) = "desc")]
        ELSE [file |-> f, err |-> FALSE, videos |-> videos]

(***************************************************************************)
(* add_video, delete_video, update_video                                   *)
(***************************************************************************)
\* The cells DictWriter(fieldnames=fieldnames).writerow(video_dict) writes.
VideoRow(idtext, video) ==
    <<idtext, video.name, video.href, video.post_date,
      Str(video.views_count)>>

AnyIdIs(f, idtext) ==
    \E i \in 1..Len(f.rows) : IdIs(f.header, f.rows[i], idtext)

\* Faulty append: the file is opened with "w", which truncates it.
AppendRow_truncating(f, row) == [f EXCEPT !.rows = <<row>>]

\* Faulty append: the row is written in front of the others.
AppendRow_front(f, row) == [f EXCEPT !.rows = <<row>> \o f.rows]

\* Faulty append: writeheader() before the row, as for a new file.
AppendRow_header(f, row) ==
    [f EXCEPT !.rows = f.rows \o <<<<<<"i", "d">>, <<"n", "a", "m", "e">>,
                                      <<"h", "r", "e", "f">>,
                                      <<"p", "o", "s", "t", "_", "d", "a", "t",
                                        "e">>,
                                      <<"v", "i", "e", "w", "s", "_", "c", "o",
                                        "u", "n", "t">>>>, row>>]

\* open(csv_path, "a") and writerow(video_dict)
AppendRow(f, row) == [f EXCEPT !.rows = Append(f.rows, row)]

\* Faulty add_video: the duplicate check is left out.
add_video_unchecked(im, f0, video) ==
    LET f == _get_csv_path(im, f0)
        row == VideoRow(Str(video.id), video)
    IN  IF ~_file_exists(f)
        THEN IF ~f.dir
             THEN [file |-> f, ok |-> FALSE, err |-> TRUE]
             ELSE [file |-> [f EXCEPT !.exists = TRUE,
                                      !.header = fieldnames,
                                      !.rows = <<row>>],
                   ok |-> TRUE, err |-> FALSE]
        ELSE [file |-> AppendRow(f, row), ok |-> TRUE, err |-> FALSE]

add_video(im, f0, video) ==
    LET f == _get_csv_path(im, f0)
        row == VideoRow(Str(video.id), video)
        file_exists == _file_exists(f)
    IN  IF file_exists /\ AnyIdIs(f, Str(video.id))
        THEN [file |-> f, ok |-> FALSE, err |-> FALSE]
        ELSE IF ~file_exists
        THEN IF ~f.dir
             THEN \* open(csv_path, "w") raises FileNotFoundError
                  [file |-> f, ok |-> FALSE, err |-> TRUE]
             ELSE [file |-> [f EXCEPT !.exists = TRUE,
                                      !.header = fieldnames,
                                      !.rows = <<row>>],
                   ok |-> TRUE, err |-> FALSE]
        ELSE [file |-> AppendRow(f, row), ok |-> TRUE, err |-> FALSE]

\* open(csv_path, "w"), writeheader(), writerows(dicts) with the field names
\* read from the file.
Rewrite(f, dicts) == [f EXCEPT !.rows = Written(dicts)]

\* Faulty loop of delete_video: stops reading at the row found.
RECURSIVE KeepOthers_break(_, _, _)
KeepOthers_break(header, rows, idtext) ==
    IF rows = <<>> \/ IdIs(header, rows[1], idtext) THEN <<>>
    ELSE <<ReaderDict(header, rows[1])>>
         \o KeepOthers_break(header, Tail(rows), idtext)

\* Faulty loop of delete_video: the row found is kept with the others.
KeepOthers_all(header, rows, idtext) ==
    [i \in 1..Len(rows) |-> ReaderDict(header, rows[i])]

RECURSIVE KeepOthers(_, _, _)
KeepOthers(header, rows, idtext) ==
    IF rows = <<>> THEN <<>>
    ELSE (IF IdIs(header, rows[1], idtext) THEN <<>>
          ELSE <<ReaderDict(header, rows[1])>>)
         \o KeepOthers(header, Tail(rows), idtext)

\* Faulty delete_video: rewrites and reports success without looking at found.
delete_video_unchecked(im, f0, id) ==
    LET f == _get_csv_path(im, f0)
        videos_to_keep == KeepOthers(f.header, f.rows, Str(id))
    IN  IF ~_file_exists(f)
        THEN [file |-> f, ok |-> FALSE, err |-> FALSE]
        ELSE [file |-> Rewrite(f, videos_to_keep),
              ok |-> ~WriteRaises(videos_to_keep),
              err |-> WriteRaises(videos_to_keep)]

delete_video(im, f0, id) ==
    LET f == _get_csv_path(im, f0)
        videos_to_keep == KeepOthers(f.header, f.rows, Str(id))
    IN  IF ~_file_exists(f) \/ ~AnyIdIs(f, Str(id))
        THEN [file |-> f, ok |-> FALSE, err |-> FALSE]
        ELSE [file |-> Rewrite(f, videos_to_keep),
              ok |-> ~WriteRaises(videos_to_keep),
              err |-> WriteRaises(videos_to_keep)]

NoReturn ==
    [kind |-> "none", id |-> 0, idtext |-> <<>>, name |-> <<>>,
     href |-> <<>>, post_date |-> <<>>, views_count |-> 0]

\* The dict update_video returns: fastapi and django convert id and
\* views_count of the written row with int(); flask returns the dumped model
\* with id replaced by str(id).
Returned(im, id, video) ==
    IF im = "flask"
    THEN [kind |-> "dumped", id |-> 0, idtext |-> Str(id),
          name |-> video.name, href |-> video.href,
          post_date |-> video.post_date, views_count |-> video.views_count]
    ELSE [kind |-> "typed", id |-> IntParse(Str(id)).val, idtext |-> <<>>,
          name |-> video.name, href |-> video.href,
          post_date |-> video.post_date,
          views_count |-> IntParse(Str(video.views_count)).val]

\* Faulty updated row: the id of the request body is written, not the key.
UpdatedRow_bodyid(id, updated_video) ==
    VideoRow(Str(updated_video.id), updated_video)

\* The dict built for the row found: id is str(id) of the key, the other
\* fields are the request's.
UpdatedRow(id, updated_video) == VideoRow(Str(id), updated_video)

\* Faulty loop of update_video: the else is missing, so the row found is
\* kept behind its replacement.
RECURSIVE UpdatedRows_keepold(_, _, _, _)
UpdatedRows_keepold(header, rows, id, updated_video) ==
    IF rows = <<>> THEN <<>>
    ELSE (IF IdIs(header, rows[1], Str(id))
          THEN <<VideoDict(header, UpdatedRow(id, updated_video))>>
          ELSE <<>>)
         \o <<ReaderDict(header, rows[1])>>
         \o UpdatedRows_keepold(header, Tail(rows), id, updated_video)

\* Faulty loop of update_video: the replacement is written behind the other
\* rows.
UpdatedRows_moved(header, rows, id, updated_video) ==
    KeepOthers(header, rows, Str(id))
    \o (IF \E i \in 1..Len(rows) : IdIs(header, rows[i], Str(id))
        THEN <<VideoDict(header, UpdatedRow(id, updated_video))>>
        ELSE <<>>)

\* The loop over the reader: the row with the id is replaced where it
\* stands, every other row is kept.
RECURSIVE UpdatedRows(_, _, _, _)
UpdatedRows(header, rows, id, updated_video) ==
    IF rows = <<>> THEN <<>>
    ELSE (IF IdIs(header, rows[1], Str(id))
          THEN <<VideoDict(header, UpdatedRow(id, updated_video))>>
          ELSE <<ReaderDict(header, rows[1])>>)
         \o UpdatedRows(header, Tail(rows), id, updated_video)

update_video(im, f0, id, updated_video) ==
    LET f == _get_csv_path(im, f0)
        updated_rows == UpdatedRows(f.header, f.rows, id, updated_video)
    IN  IF ~_file_exists(f) \/ ~AnyIdIs(f, Str(id))
        THEN [file |-> f, ok |-> FALSE, err |-> FALSE, ret |-> NoReturn]
        ELSE IF WriteRaises(updated_rows)
        THEN [file |-> Rewrite(f, updated_rows), ok |-> FALSE, err |-> TRUE,
              ret |-> NoReturn]
        ELSE [file |-> Rewrite(f, updated_rows), ok |-> TRUE, err |-> FALSE,
              ret |-> Returned(im, id, updated_video)]

(***************************************************************************)
(* Inputs                                                                  *)
(***************************************************************************)
Date1 == <<"2", "0", "2", "5", "-", "0", "1", "-", "0", "1">>

Date2 == <<"2", "0", "2", "5", "-", "0", "1", "-", "0", "2">>

BadDate == <<"2", "0", "2", "5", "-", "0", "2", "-", "3", "0">>

\* The post_date texts handed to the validator: every year-month-day text of
\* a few years (year 0000, year 0001, a century year that is not a leap
\* year, one that is, a leap year, a common year) with months 00 to MaxMonth
\* and days 00 to MaxDay, and texts that are not of the fixed-width form.
MaxMonth == 13

MaxDay == 32

Years == {0, 1, 1900, 2000, 2024, 2025}

RECURSIVE Pad(_, _)
Pad(n, width) ==
    IF width = 0 THEN <<>>
    ELSE Pad(n \div 10, width - 1) \o <<DigitChars[(n % 10) + 1]>>

DateText(y, m, d) == Pad(y, 4) \o <<"-">> \o Pad(m, 2) \o <<"-">> \o Pad(d, 2)

OtherTexts ==
    {<<>>,
     <<"i", "n", "v", "a", "l", "i", "d", "-", "d", "a", "t", "e">>,
     <<"2", "0", "2", "5", "-", "2", "-", "2", "8">>,
     <<"2", "0", "2", "5", "-", "0", "2", "-", "8">>,
     <<"2", "0", "2", "5", "-", "0", "2", "-", "2", "8", "\n">>,
     <<"2", "0", "2", "5", "-", "0", "2", "-", "2", "8", " ">>,
     <<" ", "2", "0", "2", "5", "-", "0", "2", "-", "2", "8">>,
     <<"2", "0", "2", "5", "/", "0", "2", "/", "2", "8">>,
     <<"2", "0", "2", "5", "0", "2", "2", "8">>,
     <<"2", "0", "2", "5", "-", "0", "a", "-", "0", "1">>,
     <<"0", "2", "0", "2", "5", "-", "0", "2", "-", "2", "8">>}

DateTexts ==
    {DateText(y, m, d) : y \in Years, m \in 0..MaxMonth, d \in 0..MaxDay}
        \cup OtherTexts

\* name, href, post_date and views_count of the videos requests carry: names
\* that differ by case only, equal dates, and three view counts whose order
\* as numbers is not their order as text.
Payloads ==
    {[name |-> <<"B">>, href |-> <<"h", "1">>, post_date |-> Date2,
      views_count |-> 12],
     [name |-> <<"a">>, href |-> <<"h", "2">>, post_date |-> Date1,
      views_count |-> 5],
     [name |-> <<"b">>, href |-> <<"h", "1">>, post_date |-> Date2,
      views_count |-> 7]}

Video(id, p) ==
    [id |-> id, name |-> p.name, href |-> p.href, post_date |-> p.post_date,
     views_count |-> p.views_count]

VideoInputs == {Video(i, p) : i \in Ids, p \in Payloads}

\* Request bodies whose post_date is not a calendar date.
InvalidInputs ==
    {Video(i, [name |-> <<"a">>, href |-> <<"h", "1">>, post_date |-> BadDate,
               views_count |-> 5]) : i \in Ids}

SortBys == {"none", "name", "post_date", "views_count", "id"}

Orders == {"asc", "desc", "DESC"}

(***************************************************************************)
(* File contents at start                                                  *)
(***************************************************************************)
File(dir, exists, header, rows) ==
    [dir |-> dir, exists |-> exists, header |-> header, rows |-> rows]

\* No data directory, no file, a zero-length file, a header-only file.
FreshFiles ==
    {File(FALSE, FALSE, <<>>, <<>>), File(TRUE, FALSE, <<>>, <<>>),
     File(TRUE, TRUE, <<>>, <<>>), File(TRUE, TRUE, fieldnames, <<>>)}

\* Rows a file edited outside the store can hold.
GoodRow == <<<<"1">>, <<"a">>, <<"h", "1">>, Date1, <<"5">>>>

LeadingZeroRow == <<<<"0", "1">>, <<"b">>, <<"h", "2">>, Date2, <<"1", "2">>>>

BadIdRow == <<<<"x">>, <<"a">>, <<"h", "1">>, Date1, <<"5">>>>

BadViewsRow == <<<<"2">>, <<"B">>, <<"h", "1">>, Date2, <<"x">>>>

ShortRow == <<<<"2">>, <<"a">>, <<"h", "2">>, Date1>>

LongRow == <<<<"2">>, <<"b">>, <<"h", "1">>, Date2, <<"5">>, <<"x">>>>

BadDateRow == <<<<"2">>, <<"a">>, <<"h", "1">>, BadDate, <<"1", "2">>>>

StoredRows ==
    {GoodRow, LeadingZeroRow, BadIdRow, BadViewsRow, ShortRow, LongRow,
     BadDateRow}

\* One such row, or two of which one is well formed.
StoredFiles ==
    {File(TRUE, TRUE, fieldnames, <<a>>) : a \in StoredRows}
    \cup {File(TRUE, TRUE, fieldnames, <<a, GoodRow>>) : a \in StoredRows}
    \cup {File(TRUE, TRUE, fieldnames, <<GoodRow, a>>) : a \in StoredRows}

(***************************************************************************)
(* The boundary handlers: one action per request, the whole handler with   *)
(* its store call                                                          *)
(***************************************************************************)
NoVideo ==
    [id |-> 0, name |-> <<>>, href |-> <<>>, post_date |-> <<>>,
     views_count |-> 0]

Call(name, id, video, sort_by, order, ok, err, status, videos, ret) ==
    [name |-> name, id |-> id, video |-> video, sort_by |-> sort_by,
     order |-> order, ok |-> ok, err |-> err, status |-> status,
     videos |-> videos, ret |-> ret]

NoCall ==
    Call("none", 0, NoVideo, "none", "asc", FALSE, FALSE, 0, <<>>, NoReturn)

(***************************************************************************)
(* Two requests in separate threads or worker processes: no store function *)
(* takes a lock, so their file operations interleave.                      *)
(***************************************************************************)
Procs == {1, 2}

Other(p) == 3 - p

ConcCall(name, id, video) == [name |-> name, id |-> id, video |-> video]

\* pc is the place in the store function; file_exists, snapshot, mode and
\* pending are its locals (the rows read, the mode of the open for writing,
\* the lines buffered for the write); ok and videos are what it returns.
\* torn and last record the schedule: the read fell between the truncation
\* and the write of the other; the open for writing came after the other
\* had returned.
IdleProc ==
    [pc |-> "idle", call |-> ConcCall("none", 0, NoVideo),
     file_exists |-> FALSE, snapshot |-> File(FALSE, FALSE, <<>>, <<>>),
     mode |-> "r", pending |-> <<>>, ok |-> FALSE, videos |-> <<>>,
     torn |-> FALSE, last |-> FALSE]

Init ==
    /\ impl \in Impls
    /\ file \in FreshFiles
    /\ before = file
    /\ op = NoCall
    /\ procs = [p \in Procs |-> IdleProc]

InitStored ==
    /\ impl \in Impls
    /\ file \in FreshFiles \cup StoredFiles
    /\ before = file
    /\ op = NoCall
    /\ procs = [p \in Procs |-> IdleProc]

\* The store function name opens the file f: add_video always does, the
\* others when the file exists and has content.
Opens(name, f) == name = "add" \/ _file_exists(f)

\* Faulty store: the OSError of open() reaches the handler.
OSErrorResult_raised(im, f0) ==
    [file |-> _get_csv_path(im, f0), ok |-> FALSE, err |-> TRUE,
     videos |-> <<>>, ret |-> NoReturn, raised |-> TRUE]

\* open() raises an OSError (permission, device): "except Exception" of the
\* store function prints it and returns the empty or false result.
OSErrorResult(im, f0) ==
    [file |-> _get_csv_path(im, f0), ok |-> FALSE, err |-> TRUE,
     videos |-> <<>>, ret |-> NoReturn, raised |-> FALSE]

\* The call of a store function with result r when open() is to fail: what
\* the function returns and whether an exception leaves it.
Outcome(name, fault, r) ==
    IF fault /\ Opens(name, file)
    THEN OSErrorResult(impl, file)
    ELSE [file |-> r.file, ok |-> r.ok, err |-> r.err, videos |-> r.videos,
          ret |-> r.ret, raised |-> FALSE]

\* GET /videos/
List(sort_by, order, fault) ==
    /\ op = NoCall
    /\ \E g \in {get_videos(impl, file, sort_by, order)} :
       \E r \in {Outcome("list", fault,
                         [file |-> g.file, ok |-> TRUE, err |-> g.err,
                          videos |-> g.videos, ret |-> NoReturn])} :
          /\ file' = r.file
          /\ op' = Call("list", 0, NoVideo, sort_by, order, ~r.raised, r.err,
                        IF r.raised THEN 500 ELSE 200, r.videos, NoReturn)
    /\ before' = file
    /\ UNCHANGED <<impl, procs>>

\* Faulty boundary: the request body is not validated.
is_valid_always(video) == TRUE

\* serializer.is_valid(); the body parsed as a VideoWrapper by the framework.
is_valid(video) == validate_date_format(video.post_date)

\* The status of the answer to a body that is not valid: the Django view
\* answers 400 itself; FastAPI and flask_openapi3 reject the body before
\* the handler runs, with their status for a validation error.
InvalidStatus(im) == IF im = "django" THEN 400 ELSE 422

\* POST /videos/
Add(video, fault) ==
    /\ op = NoCall
    /\ before' = file
    /\ IF is_valid(video)
       THEN \E a \in {add_video(impl, file, video)} :
            \E r \in {Outcome("add", fault,
                              [file |-> a.file, ok |-> a.ok, err |-> a.err,
                               videos |-> <<>>, ret |-> NoReturn])} :
               /\ file' = r.file
               /\ op' = Call("add", video.id, video, "none", "asc", r.ok,
                             r.err,
                             IF r.raised THEN 500
                             ELSE IF r.ok THEN 201 ELSE 409,
                             <<>>, NoReturn)
       ELSE /\ file' = file
            /\ op' = Call("add", video.id, video, "none", "asc", FALSE,
                          FALSE, InvalidStatus(impl), <<>>, NoReturn)
    /\ UNCHANGED <<impl, procs>>

\* PUT /videos/{id}/
Update(id, video, fault) ==
    /\ op = NoCall
    /\ before' = file
    /\ IF is_valid(video)
       THEN \E u \in {update_video(impl, file, id, video)} :
            \E r \in {Outcome("update", fault,
                              [file |-> u.file, ok |-> u.ok, err |-> u.err,
                               videos |-> <<>>, ret |-> u.ret])} :
               /\ file' = r.file
               /\ op' = Call("update", id, video, "none", "asc", r.ok,
                             r.err,
                             IF r.raised THEN 500
                             ELSE IF r.ok /\ r.ret # NoReturn THEN 200
                             ELSE 404,
                             <<>>, r.ret)
       ELSE /\ file' = file
            /\ op' = Call("update", id, video, "none", "asc", FALSE,
                          FALSE, InvalidStatus(impl), <<>>, NoReturn)
    /\ UNCHANGED <<impl, procs>>

\* DELETE /videos/{id}
Delete(id, fault) ==
    /\ op = NoCall
    /\ \E d \in {delete_video(impl, file, id)} :
       \E r \in {Outcome("delete", fault,
                         [file |-> d.file, ok |-> d.ok, err |-> d.err,
                          videos |-> <<>>, ret |-> NoReturn])} :
          /\ file' = r.file
          /\ op' = Call("delete", id, NoVideo, "none", "asc", r.ok, r.err,
                        IF r.raised THEN 500 ELSE IF r.ok THEN 200 ELSE 404,
                        <<>>, NoReturn)
    /\ before' = file
    /\ UNCHANGED <<impl, procs>>

\* The client receives the response; the next request can be served.
Receive ==
    /\ op # NoCall
    /\ op' = NoCall
    /\ before' = file
    /\ UNCHANGED <<impl, file, procs>>

\* Video(post_date=v): the field validator runs on the candidate record.
Validate(v) ==
    /\ op = NoCall
    /\ before' = file
    /\ op' = Call("validate", 0, [NoVideo EXCEPT !.post_date = v], "none",
                  "asc", validate_date_format(v), FALSE, 0, <<>>, NoReturn)
    /\ UNCHANGED <<impl, file, procs>>

\* Requests served with a file system that works.
Next ==
    \/ \E s \in SortBys, o \in Orders : List(s, o, FALSE)
    \/ \E v \in VideoInputs \cup InvalidInputs : Add(v, FALSE)
    \/ \E i \in Ids, v \in VideoInputs \cup InvalidInputs :
          Update(i, v, FALSE)
    \/ \E i \in Ids : Delete(i, FALSE)
    \/ Receive

\* Files for the requests during which open() may fail.
FaultFiles ==
    FreshFiles
    \cup {File(TRUE, TRUE, fieldnames, rows) :
            rows \in {<<GoodRow>>, <<GoodRow, LongRow>>, <<ShortRow>>}}

InitFault ==
    /\ impl \in Impls
    /\ file \in FaultFiles
    /\ before = file
    /\ op = NoCall
    /\ procs = [p \in Procs |-> IdleProc]

NextFault ==
    \/ \E s \in SortBys, o \in Orders, fault \in BOOLEAN : List(s, o, fault)
    \/ \E v \in VideoInputs, fault \in BOOLEAN : Add(v, fault)
    \/ \E i \in Ids, v \in VideoInputs, fault \in BOOLEAN :
          Update(i, v, fault)
    \/ \E i \in Ids, fault \in BOOLEAN : Delete(i, fault)
    \/ Receive

SpecFault == InitFault /\ [][NextFault]_vars

Spec == Init /\ [][Next]_vars

SpecStored == InitStored /\ [][Next]_vars

\* The requests that run concurrently: the added row is as long as the
\* rows of ConcFiles, the updated row is one character longer.
ConcCalls ==
    {ConcCall("list", 0, NoVideo)}
    \cup {ConcCall("add", i,
                   Video(i, [name |-> <<"a">>, href |-> <<"h", "2">>,
                             post_date |-> Date1, views_count |-> 5]))
            : i \in Ids}
    \cup {ConcCall("update", i,
                   Video(i, [name |-> <<"B">>, href |-> <<"h", "1">>,
                             post_date |-> Date2, views_count |-> 12]))
            : i \in Ids}
    \cup {ConcCall("delete", i, NoVideo) : i \in Ids}

SecondRow == <<<<"2">>, <<"b">>, <<"h", "2">>, Date2, <<"7">>>>

ConcFiles ==
    {File(TRUE, TRUE, fieldnames, <<GoodRow>>),
     File(TRUE, TRUE, fieldnames, <<GoodRow, SecondRow>>)}

\* The text of a column name in the header line.  A first line that is not
\* made of field names gives columns the store never asks for: they are all
\* named "?".
FieldText(name) ==
    CASE name = "id" -> <<"i", "d">>
      [] name = "name" -> <<"n", "a", "m", "e">>
      [] name = "href" -> <<"h", "r", "e", "f">>
      [] name = "post_date" -> <<"p", "o", "s", "t", "_", "d", "a", "t", "e">>
      [] name = "views_count" ->
            <<"v", "i", "e", "w", "s", "_", "c", "o", "u", "n", "t">>
      [] OTHER -> <<"?">>

FieldName(text) ==
    IF \E i \in 1..Len(fieldnames) : FieldText(fieldnames[i]) = text
    THEN fieldnames[CHOOSE i \in 1..Len(fieldnames) :
                        FieldText(fieldnames[i]) = text]
    ELSE "?"

HeaderLine(header) == [i \in 1..Len(header) |-> FieldText(header[i])]

\* The lines of the file: the header row and the data rows.
Lines(f) ==
    IF f.exists /\ f.header # <<>> THEN <<HeaderLine(f.header)>> \o f.rows
    ELSE <<>>

FromLines(f, lines) ==
    [f EXCEPT !.exists = TRUE,
              !.header = IF lines = <<>> THEN <<>>
                         ELSE [i \in 1..Len(lines[1]) |->
                                  FieldName(lines[1][i])],
              !.rows = IF lines = <<>> THEN <<>> ELSE Tail(lines)]

\* The text csv.writer writes for the lines: cells joined by commas, each
\* line ended by "\r\n".
RECURSIVE Join(_)
Join(cells) ==
    IF cells = <<>> THEN <<>>
    ELSE IF Len(cells) = 1 THEN cells[1]
    ELSE cells[1] \o <<",">> \o Join(Tail(cells))

\* The length of the text csv.writer writes for the lines, each line ended
\* by "\r\n".
RECURSIVE Size(_)
Size(lines) ==
    IF lines = <<>> THEN 0
    ELSE Len(Join(lines[1])) + 2 + Size(Tail(lines))

\* The cells csv.reader makes of the text of a line without quotes.
Cells(text) ==
    LET commas == {i \in 1..Len(text) : text[i] = ","}
        n == Cardinality(commas)
        at(k) == IF k = 0 THEN 0
                 ELSE IF k = n + 1 THEN Len(text) + 1
                 ELSE CHOOSE i \in commas :
                         Cardinality({j \in commas : j <= i}) = k
    IN  [k \in 1..(n + 1) |-> SubSeq(text, at(k - 1) + 1, at(k) - 1)]

\* A file opened with "w" is written from offset 0: what another has written
\* to it since the truncation stays behind the end of the text written.  The
\* line the written text ends in is cut there; DictReader skips what is left
\* of it when that is empty.
Overlay(pending, lines) ==
    LET new == Size(pending)
    IN  IF new >= Size(lines) THEN pending
        ELSE LET k == CHOOSE i \in 1..Len(lines) :
                         /\ Size(SubSeq(lines, 1, i - 1)) <= new
                         /\ Size(SubSeq(lines, 1, i)) > new
                 text == Join(lines[k])
                 cut == new - Size(SubSeq(lines, 1, k - 1))
             IN  pending
                 \o (IF cut >= Len(text) THEN <<>>
                     ELSE <<Cells(SubSeq(text, cut + 1, Len(text)))>>)
                 \o SubSeq(lines, k + 1, Len(lines))

\* Faulty open: the file is not truncated.
Truncated_kept(f) == [f EXCEPT !.exists = TRUE]

\* open(csv_path, "w") leaves a file of length zero.
Truncated(f) == [f EXCEPT !.exists = TRUE, !.header = <<>>, !.rows = <<>>]

\* delete_video or update_video applied to the file f.
Rewritten(im, call, f) ==
    IF call.name = "delete" THEN delete_video(im, f, call.id)
    ELSE update_video(im, f, call.id, call.video)

\* Faulty rewrite: the rows are read again when the file is opened for
\* writing.
Pending_reread(im, call, mode, snapshot, current) ==
    IF call.name = "add"
    THEN (IF mode = "w" THEN <<HeaderLine(fieldnames)>> ELSE <<>>)
         \o <<VideoRow(Str(call.id), call.video)>>
    ELSE IF Rewritten(im, call, current).ok
    THEN Lines(Rewritten(im, call, current).file)
    ELSE Lines(current)

\* The lines a writer has in hand when it opens the file: the header and the
\* row, or the row, of add_video; of delete_video and update_video the
\* header and rows made of the rows it has read.
Pending(im, call, mode, snapshot, current) ==
    IF call.name = "add"
    THEN (IF mode = "w" THEN <<HeaderLine(fieldnames)>> ELSE <<>>)
         \o <<VideoRow(Str(call.id), call.video)>>
    ELSE Lines(Rewritten(im, call, snapshot).file)

InitConc ==
    /\ impl \in Impls
    /\ file \in ConcFiles
    /\ before = file
    /\ op = NoCall
    /\ procs = [p \in Procs |-> IdleProc]

\* A request arrives and its handler calls the store.
Begin(p, call) ==
    /\ procs[p].pc = "idle"
    /\ procs' = [procs EXCEPT ![p].pc = "check", ![p].call = call]
    /\ UNCHANGED <<impl, file, before, op>>

\* csv_path = _get_csv_path(); _file_exists(csv_path)
Check(p) ==
    LET f == _get_csv_path(impl, file)
        me == procs[p]
    IN  /\ me.pc = "check"
        /\ file' = f
        /\ procs' =
             [procs EXCEPT ![p] =
                IF _file_exists(f)
                THEN [me EXCEPT !.pc = "read", !.file_exists = TRUE]
                ELSE IF me.call.name = "add"
                THEN [me EXCEPT !.pc = "open", !.mode = "w"]
                ELSE [me EXCEPT !.pc = "done", !.ok = me.call.name = "list"]]
        /\ UNCHANGED <<impl, before, op>>

Rewriting(q) == procs[q].pc = "write" /\ procs[q].mode = "w"

\* with open(csv_path, "r"): all rows are read.
Read(p) ==
    LET me == procs[p]
        name == me.call.name
    IN  /\ me.pc = "read"
        /\ procs' =
             [procs EXCEPT ![p] =
                IF name = "list"
                THEN [me EXCEPT !.pc = "done", !.snapshot = file, !.ok = TRUE,
                                !.videos = get_videos(impl, file, "none",
                                                      "asc").videos,
                                !.torn = Rewriting(Other(p))]
                ELSE IF name = "add"
                THEN (IF AnyIdIs(file, Str(me.call.id))
                      THEN [me EXCEPT !.pc = "done", !.snapshot = file]
                      ELSE [me EXCEPT !.pc = "open", !.snapshot = file,
                                      !.mode = "a"])
                ELSE (IF Rewritten(impl, me.call, file).ok
                      THEN [me EXCEPT !.pc = "open", !.snapshot = file,
                                      !.mode = "w"]
                      ELSE [me EXCEPT !.pc = "done", !.snapshot = file])]
        /\ UNCHANGED <<impl, file, before, op>>

\* with open(csv_path, "w") or open(csv_path, "a")
Open(p) ==
    LET me == procs[p]
    IN  /\ me.pc = "open"
        /\ file' = IF me.mode = "w" THEN Truncated(file)
                   ELSE [file EXCEPT !.exists = TRUE]
        /\ procs' =
             [procs EXCEPT ![p] =
                [me EXCEPT !.pc = "write",
                           !.pending = Pending(impl, me.call, me.mode,
                                               me.snapshot, file),
                           !.last = procs[Other(p)].pc = "done"]]
        /\ UNCHANGED <<impl, before, op>>

\* The end of the with block: the buffered lines reach the file.
Write(p) ==
    LET me == procs[p]
    IN  /\ me.pc = "write"
        /\ file' = FromLines(file,
                             IF me.mode = "w"
                             THEN Overlay(me.pending, Lines(file))
                             ELSE Lines(file) \o me.pending)
        /\ procs' = [procs EXCEPT ![p].pc = "done", ![p].ok = TRUE]
        /\ UNCHANGED <<impl, before, op>>

NextConc ==
    \E p \in Procs :
        \/ \E call \in ConcCalls : Begin(p, call)
        \/ Check(p)
        \/ Read(p)
        \/ Open(p)
        \/ Write(p)

SpecConc == InitConc /\ [][NextConc]_vars

NextDate ==
    \/ \E v \in DateTexts : Validate(v)
    \/ Receive

SpecDate == Init /\ [][NextDate]_vars

(***************************************************************************)
(* Properties                                                              *)
(***************************************************************************)
\* What the file holds: whether it exists, its header row, its data rows.
Content(f) == <<f.exists, f.header, f.rows>>

\* List() with no arguments on file f.
Listed(f) == get_videos(impl, f, "none", "asc").videos

\* Row i of f has an id cell that denotes the integer id.
RowIs(f, i, id) ==
    /\ Len(f.rows[i]) >= 1
    /\ IntParse(f.rows[i][1]).ok
    /\ IntParse(f.rows[i][1]).val = id

Stored(f, id) == \E i \in 1..Len(f.rows) : RowIs(f, i, id)

Without(videos, id) == SelectSeq(videos, LAMBDA v : v.id # id)

\* The request's record with the id of the path.
Keyed(id, video) == [video EXCEPT !.id = id]

\* C1: an Add of a valid record whose id is already stored fails with 409 and
\* leaves the file and the listed collection as they were.
C1_DuplicateAddFails ==
    (op.name = "add" /\ is_valid(op.video) /\ Stored(before, op.id))
        => LET after == Listed(file)
           IN  /\ ~op.ok
               /\ op.status = 409
               /\ Content(file) = Content(before)
               /\ after = Listed(before)
               /\ Len(SelectSeq(after, LAMBDA v : v.id = op.id)) = 1

C1_Witness ==
    /\ op.name = "add"
    /\ ~op.ok
    /\ op.status = 409
    /\ LET had == Listed(before)
       IN  \E i \in 1..Len(had) : had[i].id = op.id /\ had[i] # op.video

\* C2: from an absent, empty or header-only file, no two rows of the file
\* and no two listed records have the same id.
C2_UniqueIds ==
    /\ \A i, j \in 1..Len(file.rows) :
          i # j => file.rows[i][1] # file.rows[j][1]
    /\ LET videos == Listed(file)
       IN  \A i, j \in 1..Len(videos) : i # j => videos[i].id # videos[j].id

C2_Witness ==
    /\ op.name = "update"
    /\ op.ok
    /\ op.video.id # op.id
    /\ Stored(before, op.video.id)
    /\ Len(file.rows) >= 2

\* C3: after a successful Add(R), List() holds a record equal to R in all
\* five fields, id and views_count as integers.
C3_AddRoundTrip ==
    (op.name = "add" /\ op.ok)
        => LET videos == Listed(file)
           IN  \E i \in 1..Len(videos) : videos[i] = op.video

C3_Witness ==
    /\ op.name = "add"
    /\ op.ok
    /\ op.video.views_count >= 10
    /\ Len(Listed(file)) >= 2

\* C4: a successful Add leaves a file with the header row and the rows it
\* had, unchanged and in order, followed by exactly one new row; the header
\* is written when the file was absent or zero-length.
C4_AddAppendsOneRow ==
    (op.name = "add" /\ op.ok)
        => /\ op.status = 201
           /\ file.exists
           /\ file.header = fieldnames
           /\ _file_exists(before) => file.header = before.header
           /\ Len(file.rows) = Len(before.rows) + 1
           /\ SubSeq(file.rows, 1, Len(before.rows)) = before.rows
           /\ Len(file.rows[Len(file.rows)]) = 5
           /\ RowIs(file, Len(file.rows), op.id)

C4_Witness ==
    /\ op.name = "add"
    /\ op.ok
    /\ Len(before.rows) >= 1

\* C5: after a successful Update(id, S), List() holds exactly one record
\* with that id, and it is S with its id replaced by the key.
C5_UpdateReplacesFully ==
    (op.name = "update" /\ op.ok)
        => /\ SelectSeq(Listed(file), LAMBDA v : v.id = op.id)
                = <<Keyed(op.id, op.video)>>
           /\ op.status = 200

C5_Witness ==
    /\ op.name = "update"
    /\ op.ok
    /\ op.video.id # op.id
    /\ LET had == Listed(before)
       IN  \E i \in 1..Len(had) :
              /\ had[i].id = op.id
              /\ had[i].name # op.video.name
              /\ had[i].href # op.video.href
              /\ had[i].post_date # op.video.post_date
              /\ had[i].views_count # op.video.views_count

\* C6: a successful Update(id, S) changes the row with that id where it
\* stands and nothing else: the other rows, the number of rows and the set
\* of ids stay.
C6_UpdateFrame ==
    (op.name = "update" /\ op.ok)
        => /\ Len(file.rows) = Len(before.rows)
           /\ file.header = before.header
           /\ \A i \in 1..Len(before.rows) :
                 IF RowIs(before, i, op.id)
                 THEN RowIs(file, i, op.id)
                 ELSE file.rows[i] = before.rows[i]
           /\ LET had == Listed(before)
                  videos == Listed(file)
              IN  {videos[i].id : i \in 1..Len(videos)}
                     = {had[i].id : i \in 1..Len(had)}

C6_Witness ==
    /\ op.name = "update"
    /\ op.ok
    /\ Len(before.rows) >= 2
    /\ RowIs(before, 1, op.id)
    /\ op.video.id # op.id
    /\ Stored(before, op.video.id)
    /\ file # before

C8_NotFound ==
    (op.name \in {"update", "delete"} /\ ~Stored(before, op.id)
        /\ (op.name = "update" => is_valid(op.video)))
        => /\ ~op.ok
           /\ op.status = 404
           /\ Content(file) = Content(before)
           /\ ~update_video(impl, file, op.id, op.video).ok
           /\ update_video(impl, file, op.id, op.video).file = file
           /\ ~delete_video(impl, file, op.id).ok
           /\ delete_video(impl, file, op.id).file = file

C8_Witness ==
    /\ op.name = "delete"
    /\ ~op.ok
    /\ ~Stored(before, op.id)
    /\ Len(before.rows) >= 1

\* C9: List on a file that is absent, zero-length or header-only returns the
\* empty sequence without an error, whatever sortBy and order are.
C9_ListEmpty ==
    (op.name = "list" /\ before.rows = <<>>)
        => /\ op.videos = <<>>
           /\ ~op.err
           /\ op.status = 200

C9_Witness ==
    /\ op.name = "list"
    /\ ~before.exists
    /\ op.sort_by = "views_count"
    /\ op.order = "desc"

\* A five-cell row whose id and views_count are integer text.
WellFormed(row) ==
    Len(row) = 5 /\ IntParse(row[1]).ok /\ IntParse(row[5]).ok

RECURSIVE WellFormedVideos(_)
WellFormedVideos(rows) ==
    IF rows = <<>> THEN <<>>
    ELSE (IF WellFormed(rows[1])
          THEN <<[id |-> IntParse(rows[1][1]).val, name |-> rows[1][2],
                  href |-> rows[1][3], post_date |-> rows[1][4],
                  views_count |-> IntParse(rows[1][5]).val]>>
          ELSE <<>>)
         \o WellFormedVideos(Tail(rows))

\* The file holds five-cell rows only; the flask store, whose Video model
\* validates post_date on read, is given well-formed rows with valid dates.
FiveCellRows(f) ==
    /\ _file_exists(f)
    /\ \A i \in 1..Len(f.rows) :
          /\ Len(f.rows[i]) = 5
          /\ (impl = "flask" /\ WellFormed(f.rows[i]))
                => validate_date_format(f.rows[i][4])

\* C10: on a file that mixes well-formed rows with rows whose id or
\* views_count is no integer text, List() returns exactly the well-formed
\* rows, in file order, without an error.
C10_SkipsNonIntegerRows ==
    (op.name = "list" /\ op.sort_by = "none" /\ FiveCellRows(before))
        => /\ ~op.err
           /\ op.videos = WellFormedVideos(before.rows)

C10_Witness ==
    /\ op.name = "list"
    /\ op.sort_by = "none"
    /\ FiveCellRows(before)
    /\ Len(op.videos) >= 2
    /\ \E i, j, k \in 1..Len(before.rows) :
          /\ i < j /\ j < k
          /\ WellFormed(before.rows[i])
          /\ ~WellFormed(before.rows[j])
          /\ WellFormed(before.rows[k])

\* The file holds rows of at most five cells, one of them with fewer; the
\* flask store is given well-formed rows with valid dates.
HasShortRow(f) ==
    /\ _file_exists(f)
    /\ \E i \in 1..Len(f.rows) : Len(f.rows[i]) < 5
    /\ \A i \in 1..Len(f.rows) :
          /\ Len(f.rows[i]) <= 5
          /\ (impl = "flask" /\ WellFormed(f.rows[i]))
                => validate_date_format(f.rows[i][4])

\* C11: when a stored row has fewer than the five columns, List() skips only
\* that row and returns every well-formed row of the file.
C11_SkipsShortRows ==
    (op.name = "list" /\ op.sort_by = "none" /\ HasShortRow(before))
        => /\ ~op.err
           /\ op.videos = WellFormedVideos(before.rows)

Recognised == {"name", "post_date", "views_count"}

\* The key of record a sorts before the key of record b: views_count as a
\* number, post_date as the raw string, name without regard to case.
Before(sort_by, a, b) ==
    CASE sort_by = "views_count" -> a.views_count < b.views_count
      [] sort_by = "post_date" -> TextLess(a.post_date, b.post_date)
      [] sort_by = "name" -> TextLess(Lower(a.name), Lower(b.name))

SameKey(sort_by, a, b) == ~Before(sort_by, a, b) /\ ~Before(sort_by, b, a)

Count(s, x) == Cardinality({i \in 1..Len(s) : s[i] = x})

IsPermutation(s, t) ==
    /\ Len(s) = Len(t)
    /\ \A i \in 1..Len(s) : Count(s, s[i]) = Count(t, s[i])

Descending(order) == order \in {"desc", "DESC"}

\* C12: List(sortBy, asc) is a permutation of List() in non-decreasing key
\* order and List(sortBy, desc) one in non-increasing key order.
C12_SortCorrect ==
    (op.name = "list" /\ op.sort_by \in Recognised)
        => LET unsorted == Listed(before)
               videos == op.videos
           IN  /\ IsPermutation(videos, unsorted)
               /\ \A i, j \in 1..Len(videos) :
                     i < j =>
                        IF Descending(op.order)
                        THEN ~Before(op.sort_by, videos[i], videos[j])
                        ELSE ~Before(op.sort_by, videos[j], videos[i])

\* Views 12, 5, 7 in the file are listed as 5, 7, 12.
C12_Witness ==
    /\ op.name = "list"
    /\ op.sort_by = "views_count"
    /\ op.order = "asc"
    /\ LET unsorted == Listed(before)
       IN  /\ Len(unsorted) = 3
           /\ unsorted[1].views_count > unsorted[3].views_count
           /\ unsorted[3].views_count > unsorted[2].views_count
           /\ Len(op.videos) = 3
           /\ op.videos[1] = unsorted[2]
           /\ op.videos[2] = unsorted[3]
           /\ op.videos[3] = unsorted[1]

\* List(sortBy, asc) on the file the request found.
Ascending(f, sort_by) == get_videos(impl, f, sort_by, "asc").videos

NoTies(sort_by, videos) ==
    \A i, j \in 1..Len(videos) :
        i # j => ~SameKey(sort_by, videos[i], videos[j])

KeyGroup(sort_by, videos, v) ==
    SelectSeq(videos, LAMBDA w : SameKey(sort_by, w, v))

\* C14: records with equal sort keys are listed in their file order, in
\* ascending and in descending order alike.
C14_StableBothWays ==
    (op.name = "list" /\ op.sort_by \in Recognised)
        => LET unsorted == Listed(before)
           IN  \A k \in 1..Len(unsorted) :
                  KeyGroup(op.sort_by, op.videos, unsorted[k])
                     = KeyGroup(op.sort_by, unsorted, unsorted[k])

C14_Witness ==
    /\ op.name = "list"
    /\ op.sort_by = "post_date"
    /\ op.order = "desc"
    /\ LET unsorted == Listed(before)
       IN  /\ Len(unsorted) >= 3
           /\ \E i, j, k \in 1..Len(unsorted) :
                 /\ i < j
                 /\ SameKey("post_date", unsorted[i], unsorted[j])
                 /\ unsorted[i] # unsorted[j]
                 /\ Before("post_date", unsorted[i], unsorted[k])

\* C15: a sort_by outside {name, post_date, views_count}, unset included,
\* is no sort: List returns the records in file order, the result of List()
\* with no arguments, whatever the order is.
C15_UnrecognisedIsNoSort ==
    (op.name = "list" /\ op.sort_by \notin Recognised)
        => op.videos = Listed(before)

C15_Witness ==
    /\ op.name = "list"
    /\ op.sort_by = "id"
    /\ Descending(op.order)
    /\ Len(op.videos) >= 2
    /\ op.videos = Listed(before)
    /\ \E s \in Recognised : Ascending(before, s) # op.videos
    /\ \E i \in 1..(Len(op.videos) - 1) : op.videos[i].id > op.videos[i+1].id

\* The calendar, written out: the lengths of the twelve months, February
\* having one day more in years divisible by 4 that are not century years,
\* and in century years divisible by 400.
MonthLengths == <<31, 28, 31, 30, 31, 30, 31, 31, 30, 31, 30, 31>>

LeapYear(y) == IF y % 100 = 0 THEN y % 400 = 0 ELSE y % 4 = 0

FixedWidthForm(v) ==
    /\ Len(v) = 10
    /\ \A i \in 1..10 : IF i \in {5, 8} THEN v[i] = "-" ELSE IsDigit(v[i])

Number(v, from, to) == DigitsVal(SubSeq(v, from, to), 0)

\* v has the form YYYY-MM-DD and names a day of the calendar (which starts
\* with year 1).
RealCalendarDate(v) ==
    /\ FixedWidthForm(v)
    /\ LET y == Number(v, 1, 4)
           m == Number(v, 6, 7)
           d == Number(v, 9, 10)
       IN  /\ y >= 1
           /\ m \in 1..12
           /\ d >= 1
           /\ d <= MonthLengths[m] + (IF m = 2 /\ LeapYear(y) THEN 1 ELSE 0)

\* C16: the validator accepts a post_date exactly when it has the form of
\* four digits, hyphen, two digits, hyphen, two digits and is a real
\* calendar date; 2025-02-30 is rejected and 2025-02-28 accepted.
C16_ValidatorAcceptsRealDates ==
    op.name = "validate"
        => /\ op.ok <=> RealCalendarDate(op.video.post_date)
           /\ op.video.post_date = BadDate => ~op.ok
           /\ op.video.post_date = DateText(2025, 2, 28) => op.ok

C16_Witness ==
    /\ op.name = "validate"
    /\ op.video.post_date = DateText(2024, 2, 29)
    /\ op.ok

\* A create or update request whose post_date is not a calendar date.
InvalidWrite ==
    /\ op.name \in {"add", "update"}
    /\ ~RealCalendarDate(op.video.post_date)

\* The store was not entered: nothing of the file changed, not even its
\* directory, and nothing was returned.
NotReached == file = before /\ ~op.ok /\ ~op.err /\ op.ret = NoReturn

Writers == {"add", "update", "delete"}

\* p rewrote the file from rows read before q wrote, and opened it for
\* writing after q had returned success.
Clobbers(p, q) ==
    /\ procs[p].pc = "done" /\ procs[p].ok
    /\ procs[p].call.name \in {"update", "delete"}
    /\ procs[q].pc = "done" /\ procs[q].ok
    /\ procs[q].call.name \in Writers
    /\ procs[p].last
    /\ Content(procs[p].snapshot) = Content(before)

\* C18: when two writers both read the file as it was before either wrote,
\* the full rewrite of the second overwrites the change of the first: the
\* file is what the second alone makes of the file both read, and an Add
\* that returned success has left no row in it.
C18_LostUpdate ==
    \A p \in Procs :
        Clobbers(p, Other(p))
            => /\ Content(file)
                    = Content(Rewritten(impl, procs[p].call, before).file)
               /\ (procs[Other(p)].call.name = "add"
                      /\ procs[Other(p)].call.id # procs[p].call.id)
                     => ~Stored(file, procs[Other(p)].call.id)

C18_Witness ==
    /\ Clobbers(1, 2)
    /\ procs[1].call.name = "delete"
    /\ procs[2].call.name = "add"
    /\ ~Stored(before, procs[2].call.id)
    /\ ~Stored(file, procs[2].call.id)
    /\ ~Stored(file, procs[1].call.id)

\* C19: a rewrite is not atomic for a concurrent List: a List that reads
\* after the rewrite has truncated the file and before it has written
\* returns the empty list, without the records that are in the file both
\* before and after the rewrite.
C19_TornRead ==
    \A p \in Procs :
        (procs[p].pc = "done" /\ procs[p].call.name = "list"
            /\ procs[p].torn)
            => procs[p].videos = <<>>

C19_Witness ==
    /\ procs[1].pc = "done" /\ procs[1].call.name = "list"
    /\ procs[1].torn
    /\ procs[1].videos = <<>>
    /\ procs[2].pc = "done" /\ procs[2].ok
    /\ procs[2].call.name = "delete"
    /\ \E id \in Ids :
          /\ id # procs[2].call.id
          /\ Stored(before, id)
          /\ Stored(file, id)
          /\ Listed(before) # <<>>
          /\ Listed(file) # <<>>

\* The file holds a row that is not well formed: an id or views_count that
\* is no integer text, too few cells or too many.  (The flask store is given
\* well-formed rows with valid dates, as for C10.)
HasMalformedRow(f) ==
    /\ _file_exists(f)
    /\ \E i \in 1..Len(f.rows) : ~WellFormed(f.rows[i])
    /\ \A i \in 1..Len(f.rows) :
          (impl = "flask" /\ WellFormed(f.rows[i]))
              => validate_date_format(f.rows[i][4])

\* C20: malformed rows in the file never make an operation fail: Add of an
\* id no row carries, and Update and Delete of an id a row carries, succeed,
\* and List returns the well-formed rows.
C20_MalformedRowsNeverFail ==
    HasMalformedRow(before)
        => /\ (op.name = "list" /\ op.sort_by = "none")
                 => /\ ~op.err
                    /\ op.videos = WellFormedVideos(before.rows)
           /\ (op.name = "add" /\ is_valid(op.video)
                  /\ ~Stored(before, op.id))
                 => op.status = 201 /\ AnyIdIs(file, Str(op.id))
           /\ (op.name = "update" /\ is_valid(op.video)
                  /\ AnyIdIs(before, Str(op.id)))
                 => op.status = 200
           /\ (op.name = "delete" /\ AnyIdIs(before, Str(op.id)))
                 => op.status = 200 /\ ~AnyIdIs(file, Str(op.id))

\* Every row of the file is well formed and has a valid post_date.
AllRowsGood(f) ==
    /\ _file_exists(f)
    /\ f.header = fieldnames
    /\ \A i \in 1..Len(f.rows) :
          WellFormed(f.rows[i]) /\ validate_date_format(f.rows[i][4])

\* C21: ids are compared as integer values in every operation: a row whose
\* id text denotes n, in whatever form, is the record n for the duplicate
\* check of Add, for Update(n) and for Delete(n), as it is for List.
C21_IdsComparedAsIntegers ==
    (AllRowsGood(before) /\ Stored(before, op.id))
        => /\ (op.name = "add" /\ is_valid(op.video)) => op.status = 409
           /\ (op.name = "update" /\ is_valid(op.video)) => op.status = 200
           /\ op.name = "delete" => op.status = 200

\* C22: a failure of the file system is never raised to the caller: List
\* yields the empty collection, and Add, Update and Delete yield the false
\* result they give for an id that exists already or is not found.
C22_FaultsAbsorbed ==
    op.err
        => /\ op.status # 500
           /\ op.name = "list" => op.videos = <<>> /\ op.status = 200
           /\ op.name = "add" => ~op.ok /\ op.status = 409
           /\ op.name = "update"
                 => ~op.ok /\ op.ret = NoReturn /\ op.status = 404
           /\ op.name = "delete" => ~op.ok /\ op.status = 404

C22_Witness ==
    /\ op.name = "update"
    /\ op.err
    /\ AllRowsGood(before)
    /\ AnyIdIs(before, Str(op.id))
    /\ file = before
    /\ op.status = 404

\* C23: the storage location is created lazily: with neither data directory
\* nor file, the first Add creates both and succeeds; List and a failed
\* Update or Delete create neither.
C23_LazyCreation ==
    /\ (op.name = "add" /\ is_valid(op.video) /\ ~before.dir
           /\ ~before.exists)
          => op.status = 201 /\ file.dir /\ file.exists
    /\ (op.name = "list" \/ (op.name \in {"update", "delete"} /\ ~op.ok))
          => file.dir = before.dir /\ file.exists = before.exists

\* C24: List never validates: a row with five cells whose id and
\* views_count are integer text is listed whatever its post_date is, also
\* one the validator rejects.
C24_ListNeverValidates ==
    (op.name = "list" /\ op.sort_by = "none" /\ _file_exists(before)
        /\ \A i \in 1..Len(before.rows) : Len(before.rows[i]) = 5)
        => /\ ~op.err
           /\ op.videos = WellFormedVideos(before.rows)

\* C25: a successful Update(id, S) returns the stored record in typed form,
\* in each store: id is the integer key, views_count is an integer, and
\* name, href and post_date are those of S.
C25_UpdateReturnsTyped ==
    (op.name = "update" /\ op.ok)
        => /\ op.ret.kind = "typed"
           /\ op.ret.id = op.id
           /\ op.ret.views_count = op.video.views_count
           /\ op.ret.name = op.video.name
           /\ op.ret.href = op.video.href
           /\ op.ret.post_date = op.video.post_date

\* The sequence of records with the element of key id replaced where it
\* stands.
Replaced(videos, id, v) ==
    [i \in 1..Len(videos) |-> IF videos[i].id = id THEN v ELSE videos[i]]

\* The step of the sequence of records that the request served last makes.
AbstractStep(videos) ==
    CASE op.name = "add" /\ op.ok -> Append(videos, op.video)
      [] op.name = "update" /\ op.ok ->
            Replaced(videos, op.id, Keyed(op.id, op.video))
      [] op.name = "delete" /\ op.ok -> Without(videos, op.id)
      [] OTHER -> videos

\* C26: the store refines a sequence of records: from an absent file on,
\* List() is the sequence that a successful Add appends to, in which a
\* successful Update replaces in place, from which a successful Delete
\* removes, and that a failed operation leaves alone.
C26_RefinesSequence ==
    LET had == Listed(before)
        has == Listed(file)
    IN  /\ has = AbstractStep(had)
        /\ op.name = "add" /\ op.ok => \A i \in 1..Len(had) : had[i].id # op.id
        /\ op.name \in {"update", "delete"} /\ op.ok
              => \E i \in 1..Len(had) : had[i].id = op.id

C26_Witness ==
    /\ op.name = "add"
    /\ op.ok
    /\ LET had == Listed(before)
           has == Listed(file)
       IN  /\ Len(had) >= 1
           /\ has = Append(had, op.video)
           /\ had[1].views_count > op.video.views_count

\* The file holds the header row and one five-field row per listed record,
\* in the order listed.
HeaderAndRecords(f, videos) ==
    /\ f.header = fieldnames
    /\ Len(f.rows) = Len(videos)
    /\ \A i \in 1..Len(f.rows) :
          f.rows[i] = VideoRow(Str(videos[i].id), videos[i])

\* C27: from an absent or empty file on, a file that is not empty is the
\* header row followed by one five-field row per record; deleting the last
\* record leaves the header alone, and an Add to the header alone appends one
\* row and no second header.
C27_FileLayout ==
    /\ _file_exists(file) => HeaderAndRecords(file, Listed(file))
    /\ (op.name = "delete" /\ op.ok /\ Len(before.rows) = 1)
          => file.exists /\ file.header = fieldnames /\ file.rows = <<>>
    /\ (op.name = "add" /\ op.ok /\ _file_exists(before)
        /\ before.rows = <<>>)
          => /\ file.header = fieldnames
             /\ file.rows = <<VideoRow(Str(op.id), op.video)>>

C27_Witness ==
    /\ op.name = "add"
    /\ op.ok
    /\ _file_exists(before)
    /\ before.rows = <<>>
    /\ Len(file.rows) = 1
    /\ Len(Listed(file)) = 1

\* Two store results are the same to the caller: the values returned and the
\* file content left.
SameResult(r1, r2, fields) ==
    /\ Content(r1.file) = Content(r2.file)
    /\ \A k \in fields : r1[k] = r2[k]

\* C28: the three stores, given the same file and the same call, return the
\* same result and leave the same file content.
C28_StoresEquivalent ==
    \A im1, im2 \in Impls :
        /\ \A s \in SortBys, o \in Orders :
              SameResult(get_videos(im1, file, s, o),
                         get_videos(im2, file, s, o), {"videos"})
        /\ \A v \in VideoInputs :
              SameResult(add_video(im1, file, v), add_video(im2, file, v),
                         {"ok"})
        /\ \A id \in Ids, v \in VideoInputs :
              SameResult(update_video(im1, file, id, v),
                         update_video(im2, file, id, v), {"ok", "ret"})
        /\ \A id \in Ids :
              SameResult(delete_video(im1, file, id),
                         delete_video(im2, file, id), {"ok"})

\* List() on file f holds a record with that id.
ListedId(f, id) ==
    LET videos == Listed(f)
    IN  \E i \in 1..Len(videos) : videos[i].id = id

\* C29: on every file, malformed rows included, Add of an id fails, and
\* Update and Delete of it succeed, exactly when List() holds a record with
\* that id.
C29_AgreeWithList ==
    \A id \in Ids :
        LET listed == ListedId(file, id)
        IN  /\ \A v \in VideoInputs :
                  v.id = id => (add_video(impl, file, v).ok <=> ~listed)
            /\ \A v \in VideoInputs :
                  update_video(impl, file, id, v).ok <=> listed
            /\ delete_video(impl, file, id).ok <=> listed

\* C30: an Update or a Delete that reports failure, whatever the reason,
\* leaves the content of the file as it was before the call.
C30_FailureChangesNothing ==
    (op.name \in {"update", "delete"} /\ ~op.ok)
        => Content(file) = Content(before)

\* The rows of file f whose id cell is the text of id.
RowsOf(f, id) == {i \in 1..Len(f.rows) : IdIs(f.header, f.rows[i], Str(id))}

\* C31: when two Adds of the same id have run concurrently and both have
\* returned, at most one has returned success and the file holds at most one
\* row of that id.
C31_UniqueUnderInterleaving ==
    (/\ \A p \in Procs : procs[p].pc = "done" /\ procs[p].call.name = "add"
     /\ procs[1].call.id = procs[2].call.id)
        => /\ ~(procs[1].ok /\ procs[2].ok)
           /\ Cardinality(RowsOf(file, procs[1].call.id)) <= 1

\* C32: a List, whatever its sortBy and order and whatever the file holds,
\* leaves the content of the file as it was, and the same List called again
\* right after it returns the same result.
C32_ListReadOnly ==
    op.name = "list"
        => /\ Content(file) = Content(before)
           /\ LET again == get_videos(impl, file, op.sort_by, op.order)
              IN  /\ again.videos = op.videos
                  /\ Content(again.file) = Content(before)

C32_Witness ==
    /\ op.name = "list"
    /\ op.sort_by = "views_count"
    /\ Len(op.videos) >= 2
    /\ op.videos # Listed(file)
    /\ Content(file) = Content(before)

\* The file f is there and List() on it has no record with that id: the
\* state a successful Delete(id) leaves.
Gone(f, id) == f.dir /\ f.exists /\ ~ListedId(f, id)

\* The request served last is a successful Add of that id.
AddedBack(id) == op.name = "add" /\ op.ok /\ op.id = id

\* C33: a successful Delete(id) leaves List() without a record of that id;
\* from then on, request by request, until a successful Add of that id,
\* List() stays without it and Update(id) and Delete(id) answer not found;
\* the next Add of that id succeeds and its record is the last of List().
\* Each request is taken with the file it found (before) and the file it
\* left (file).
C33_RecordLifecycle ==
    /\ (op.name = "delete" /\ op.ok) => Gone(file, op.id)
    /\ \A id \in Ids :
          (op.name # "none" /\ Gone(before, id) /\ ~AddedBack(id))
              => /\ Gone(file, id)
                 /\ (op.name = "update" /\ op.id = id /\ is_valid(op.video))
                       => ~op.ok /\ op.status = 404
                 /\ (op.name = "delete" /\ op.id = id)
                       => ~op.ok /\ op.status = 404
    /\ \A id \in Ids :
          (Gone(before, id) /\ op.name = "add" /\ op.id = id
           /\ is_valid(op.video))
              => /\ op.ok
                 /\ op.status = 201
                 /\ LET has == Listed(file)
                    IN  /\ Len(has) = Len(Listed(before)) + 1
                        /\ has[Len(has)] = op.video

C33_Witness ==
    /\ op.name = "delete"
    /\ op.ok
    /\ Gone(file, op.id)
    /\ ListedId(before, op.id)
    /\ Len(Listed(file)) >= 1

====
